---- MODULE Spec2Model ----
(***************************************************************************)
(* The in-memory record store (server/storage.ts, class MemStorage), its   *)
(* price predictor and forecast generator, and the API handlers of         *)
(* server/routes.ts that use them.                                         *)
(*                                                                         *)
(* Representation.                                                         *)
(*  - A JavaScript Map is a sequence of [key, value] entries in insertion  *)
(*    order; Map.set replaces the value of an existing key in place and    *)
(*    appends a new key.                                                   *)
(*  - Money is exact: a stored price is an integer number of cents, a      *)
(*    computed price is a fraction <<numerator, denominator>> of cents     *)
(*    with a positive denominator (IEEE rounding error is not modelled).   *)
(*  - A value of Math.random() is an integer d, 0 <= d < RandomScale,      *)
(*    standing for d / RandomScale.                                        *)
(*  - Time is an integer number of months; now is what new Date() reads.    *)
(*  - An async method without an await in its body runs to its end in one  *)
(*    step. A method or a handler with awaits runs up to its first await    *)
(*    in one step and is suspended; resumed, it runs to its next await or   *)
(*    to its end, and other calls run in between. awaiting holds the       *)
(*    suspended calls: op and pc say where a call waits, the other fields   *)
(*    are its local variables. call and ret show the call that completed   *)
(*    last, or that the step before suspended a call.                      *)
(***************************************************************************)
EXTENDS Integers, Sequences, FiniteSets, TLC

VARIABLES
    users, cropTypes, listings, bids, barterOffers, priceHistory,
    userId, cropTypeId, listingId, bidId, barterOfferId, priceHistoryId,
    call,   \* the last operation that completed, with its arguments
    ret,    \* what that operation returned
    awaiting \* the calls suspended at an await

store == <<users, cropTypes, listings, bids, barterOffers, priceHistory,
           userId, cropTypeId, listingId, bidId, barterOfferId, priceHistoryId>>
vars == <<users, cropTypes, listings, bids, barterOffers, priceHistory,
          userId, cropTypeId, listingId, bidId, barterOfferId, priceHistoryId,
          call, ret, awaiting>>

---------------------------------------------------------------------------
(* Bounds of the model *)

\* createPriceHistory calls after construction
MaxNewHistory == 2
\* createCropType calls after construction
MaxCropTypes == 3
\* create calls of all collections together, after construction (Spec)
MaxNewRecords == 2
\* calls and requests suspended at the same time, where calls or requests
\* overlap with each other (SpecAsync, SpecForecast, SpecApi)
MaxAwaiting == 2
\* calls and requests suspended at the same time, where the store operations
\* without an await run between the steps of a call (Spec, SpecPredict,
\* SpecRoute)
MaxInFlight == 1
---------------------------------------------------------------------------
(* Program constants *)

CentsPerUnit == 100
RandomScale == 100
SeedMonths == 6
FallbackBase == 20
BonusA == 10
BonusB == 5
TopCrops == 3
RecentEntries == 3
\* recordedDate undefined
NoDate == -1
\* a request field that is absent (or falsy): cropTypeId 0, the string ""
NoId == 0
NoString == ""

---------------------------------------------------------------------------
(* Fractions, sequences *)

Min(a, b) == IF a <= b THEN a ELSE b

Rat(n, d) == <<n, d>>
RatEq(a, b) == a[1] * b[2] = b[1] * a[2]
RatLe(a, b) == a[1] * b[2] <= b[1] * a[2]
RatPositive(a) == a[1] > 0

Range(s) == {s[i] : i \in 1..Len(s)}

RECURSIVE SumPrices(_)
SumPrices(s) == IF s = <<>> THEN 0 ELSE s[1].price + SumPrices(Tail(s))

Front(s) == SubSeq(s, 1, Len(s) - 1)

---------------------------------------------------------------------------
(* Map<number, T> *)

MapHas(m, k) == \E i \in 1..Len(m) : m[i].key = k
MapGet(m, k) == m[CHOOSE i \in 1..Len(m) : m[i].key = k].value
MapSet(m, k, v) ==
    IF MapHas(m, k)
    THEN [i \in 1..Len(m) |-> IF m[i].key = k THEN [key |-> k, value |-> v] ELSE m[i]]
    ELSE Append(m, [key |-> k, value |-> v])
MapValues(m) == [i \in 1..Len(m) |-> m[i].value]

---------------------------------------------------------------------------
(* The sample data of initSampleData *)

SeedCropNames == <<"Rice", "Wheat", "Tomato", "Potato", "Onion",
                   "Green Chillies", "Eggplant", "Cauliflower", "Cabbage", "Carrots">>

SeedUsers == <<
    [username |-> "farmer1", location |-> "Nashik", role |-> "farmer"],
    [username |-> "farmer2", location |-> "Pune",   role |-> "farmer"],
    [username |-> "farmer3", location |-> "Nagpur", role |-> "farmer"],
    [username |-> "buyer1",  location |-> "Mumbai", role |-> "buyer"] >>

SeedListings == <<
    [userId |-> 1, cropTypeId |-> 1, price |-> 42 * CentsPerUnit, quality |-> "A",
     location |-> "Nashik", isActive |-> TRUE],
    [userId |-> 2, cropTypeId |-> 3, price |-> 25 * CentsPerUnit, quality |-> "A",
     location |-> "Pune", isActive |-> TRUE],
    [userId |-> 3, cropTypeId |-> 2, price |-> 32 * CentsPerUnit, quality |-> "B",
     location |-> "Nagpur", isActive |-> TRUE] >>

SeedLocations == <<"Pune", "Nashik", "Nagpur", "Mumbai", "Ahmednagar">>
SeedQualities == <<"A", "B", "C">>

---------------------------------------------------------------------------
(* The records the create operations build: { ...data, id, ... } *)

\* { ...a, ...b }: the fields of both, b's value where both have the field
Spread(a, b) ==
    [f \in DOMAIN a \cup DOMAIN b |-> IF f \in DOMAIN b THEN b[f] ELSE a[f]]

newUser(data, id) == Spread(data, [id |-> id])

newCropType(data, id) == Spread(data, [id |-> id])

newListing(data, id, now) == Spread(data, [id |-> id, createdAt |-> now])

newBid(data, id, now) ==
    Spread(data, [id |-> id, createdAt |-> now, status |-> "pending"])

newBarterOffer(data, id, now) ==
    Spread(data, [id |-> id, createdAt |-> now, status |-> "pending"])

\* recordedDate: priceHistoryData.recordedDate || new Date()
newPriceHistory(data, id, now) ==
    Spread(data, [id |-> id,
                  recordedDate |-> IF data.recordedDate = NoDate THEN now
                                   ELSE data.recordedDate])

---------------------------------------------------------------------------
(* The constructor *)

qualityBonus(quality) ==
    IF quality = "A" THEN BonusA ELSE IF quality = "B" THEN BonusB ELSE 0

\* The streams of values Math.random() gives the seeding: the least value at
\* every draw, or values spread over the range.
SeedStreams == {0, 37}

\* The k-th value of Math.random() in the stream s
SeedRandom(s, k) == (s * k) % RandomScale

\* basePrice of crop type i and a quality with Math.random() = d / RandomScale:
\* Math.max(5, 15 + i * 2 + bonus + (random * 10 - 5)), in cents.
SeedPrice(i, quality, d) ==
    LET basePrice == (15 + i * 2 + qualityBonus(quality)) * CentsPerUnit
                     + ((d * 10 * CentsPerUnit) \div RandomScale - 5 * CentsPerUnit)
    IN  IF basePrice < 5 * CentsPerUnit THEN 5 * CentsPerUnit ELSE basePrice

\* one entry for every crop type, location, quality and month
SeedHistoryCount ==
    Len(SeedCropNames) * Len(SeedLocations) * Len(SeedQualities) * SeedMonths

\* The k-th createPriceHistory call of the nested loops
\* (crop type, location, quality, month), made at time now, with the stream s
\* of random values.
SeedHistoryData(s, k, now) ==
    LET month == (k - 1) % SeedMonths
        q     == ((k - 1) \div SeedMonths) % Len(SeedQualities)
        l     == ((k - 1) \div (SeedMonths * Len(SeedQualities))) % Len(SeedLocations)
        i     == ((k - 1) \div (SeedMonths * Len(SeedQualities) * Len(SeedLocations))) + 1
    IN  [cropTypeId |-> i, location |-> SeedLocations[l + 1],
         price |-> SeedPrice(i, SeedQualities[q + 1], SeedRandom(s, k)),
         quality |-> SeedQualities[q + 1], recordedDate |-> now - month]

\* k create calls on an empty map with the counter at 1: the j-th call takes
\* id j and Map.set appends it under that new key.
SeedCropTypes(k) ==
    [j \in 1..k |-> [key |-> j, value |-> newCropType([name |-> SeedCropNames[j]], j)]]

SeedUserMap(k) ==
    [j \in 1..k |-> [key |-> j, value |-> newUser(SeedUsers[j], j)]]

SeedListingMap(k, now) ==
    [j \in 1..k |-> [key |-> j, value |-> newListing(SeedListings[j], j, now)]]

SeedHistoryMap(s, k, now) ==
    [j \in 1..k |-> [key |-> j,
                     value |-> newPriceHistory(SeedHistoryData(s, j, now), j, now)]]

\* the whole constructor: the empty maps, then initSampleData
Init ==
        /\ cropTypes = SeedCropTypes(Len(SeedCropNames))
        /\ cropTypeId = Len(SeedCropNames) + 1
        /\ users = SeedUserMap(Len(SeedUsers))
        /\ userId = Len(SeedUsers) + 1
        /\ listings = SeedListingMap(Len(SeedListings), SeedMonths - 1)
        /\ listingId = Len(SeedListings) + 1
        /\ bids = <<>> /\ bidId = 1
        /\ barterOffers = <<>> /\ barterOfferId = 1
        /\ \E s \in SeedStreams :
              priceHistory = SeedHistoryMap(s, SeedHistoryCount, SeedMonths - 1)
        /\ priceHistoryId = SeedHistoryCount + 1
        /\ call = [op |-> "new"]
        /\ ret = [op |-> "new"]
        /\ awaiting = <<>>

---------------------------------------------------------------------------
(* Price history operations *)

getPriceHistoryByCropTypeAndLocation(ph, c, location) ==
    SelectSeq(MapValues(ph), LAMBDA h : h.cropTypeId = c /\ h.location = location)

\* One entry put into a list sorted by recordedDate, latest first, behind the
\* entries of the same date (Array.prototype.sort is stable).
InsertByDate(sorted, h) ==
    LET n == Cardinality({i \in 1..Len(sorted) : sorted[i].recordedDate >= h.recordedDate})
    IN  SubSeq(sorted, 1, n) \o <<h>> \o SubSeq(sorted, n + 1, Len(sorted))

\* qualityHistory.sort((a, b) => b.recordedDate - a.recordedDate)
RECURSIVE sortedHistory(_)
sortedHistory(qualityHistory) ==
    IF qualityHistory = <<>> THEN <<>>
    ELSE InsertByDate(sortedHistory(Front(qualityHistory)),
                      qualityHistory[Len(qualityHistory)])

\* the oldest three instead of the latest three: slice(-3)
recentPrices_oldest(sorted) ==
    SubSeq(sorted, Len(sorted) - Min(RecentEntries, Len(sorted)) + 1, Len(sorted))

\* sortedHistory.slice(0, Math.min(3, sortedHistory.length))
recentPrices(sorted) == SubSeq(sorted, 1, Min(RecentEntries, Len(sorted)))

\* recentPrices.reduce((sum, h) => sum + h.price, 0) / recentPrices.length
avgRecentPrice(recent) == Rat(SumPrices(recent), Len(recent))

\* twice the spread: 1 + (Math.random() * 0.2 - 0.1)
predictionFactor_wide(d) == Rat(9 * RandomScale + 2 * d, 10 * RandomScale)

\* 1 + (Math.random() * 0.1 - 0.05), with Math.random() = d / RandomScale
predictionFactor(d) == Rat(19 * RandomScale + 2 * d, 20 * RandomScale)

\* the default price without the quality bonus
defaultPrice_noBonus(quality) == Rat(FallbackBase * CentsPerUnit, 1)

\* the default price of a combination without history
defaultPrice(quality) == Rat((FallbackBase + qualityBonus(quality)) * CentsPerUnit, 1)

\* the entries of every quality: the filter on quality left out
\* the entries of every quality: the filter on quality left out
qualityHistoryOf_anyQuality(history, quality) == history

\* history.filter(h => h.quality === quality)
qualityHistoryOf(history, quality) == SelectSeq(history, LAMBDA h : h.quality = quality)

\* predictPrice from its await on, history the array the await gives it: the
\* filter on quality, then the default price or the average of the latest
\* entries times the random factor. With what it computed on the way: the
\* entries that matched, the average before the random factor (none on the
\* default path), the price returned.
resumePredictPrice(history, quality, d) ==
    LET qualityHistory == qualityHistoryOf(history, quality)
    IN  IF Len(qualityHistory) = 0
        THEN [matched |-> 0, jittered |-> FALSE,
              avg |-> defaultPrice(quality), price |-> defaultPrice(quality)]
        ELSE LET avg == avgRecentPrice(recentPrices(sortedHistory(qualityHistory)))
                 f   == predictionFactor(d)
             IN  [matched |-> Len(qualityHistory), jittered |-> TRUE,
                  avg |-> avg, price |-> Rat(avg[1] * f[1], avg[2] * f[2])]

\* what a predictPrice call returns that reads the history ph
predictPrice(ph, c, location, quality, d) ==
    resumePredictPrice(getPriceHistoryByCropTypeAndLocation(ph, c, location), quality, d)

---------------------------------------------------------------------------
(* Suspended calls *)

\* the sequence without its i-th element, and with x in its place
Remove(seq, i) == SubSeq(seq, 1, i - 1) \o SubSeq(seq, i + 1, Len(seq))
Replace(seq, i, x) == [seq EXCEPT ![i] = x]

\* what call and ret show while the call that took the step is suspended
Await(op) == [op |-> "await", of |-> op]
Pending == [promise |-> "pending"]

\* the i-th suspended call is a call of op at the await pc
Suspended(i, op, pc) ==
    /\ i \in 1..Len(awaiting)
    /\ awaiting[i].op = op
    /\ awaiting[i].pc = pc

---------------------------------------------------------------------------
(* Store operations as actions *)

\* the id counter read and not advanced: this.priceHistoryId in place of
\* this.priceHistoryId++
CreatePriceHistory_sameId(data, now) ==
    /\ LET id == priceHistoryId
           rec == newPriceHistory(data, id, now)
       IN  /\ priceHistoryId' = priceHistoryId
           /\ priceHistory' = MapSet(priceHistory, id, rec)
           /\ call' = [op |-> "createPriceHistory", data |-> data]
           /\ ret' = rec
    /\ UNCHANGED <<awaiting, users, cropTypes, listings, bids, barterOffers,
                   userId, cropTypeId, listingId, bidId, barterOfferId>>

CreatePriceHistory(data, now) ==
    /\ LET id == priceHistoryId
           rec == newPriceHistory(data, id, now)
       IN  /\ priceHistoryId' = priceHistoryId + 1
           /\ priceHistory' = MapSet(priceHistory, id, rec)
           /\ call' = [op |-> "createPriceHistory", data |-> data]
           /\ ret' = rec
    /\ UNCHANGED <<awaiting, users, cropTypes, listings, bids, barterOffers,
                   userId, cropTypeId, listingId, bidId, barterOfferId>>

\* What a call of predictPrice is suspended with at its await:
\* getPriceHistoryByCropTypeAndLocation has run to its end and the array it
\* returned is what the call goes on with. seen is the number of entries the
\* store held when the array was read.
predictPriceCall(c, location, quality) ==
    [op |-> "predictPrice", pc |-> "getPriceHistoryByCropTypeAndLocation",
     cropTypeId |-> c, location |-> location, quality |-> quality,
     history |-> getPriceHistoryByCropTypeAndLocation(priceHistory, c, location),
     seen |-> Len(priceHistory)]

\* predictPrice up to its await
PredictPriceAwait(c, location, quality) ==
    /\ awaiting' = Append(awaiting, predictPriceCall(c, location, quality))
    /\ call' = Await("predictPrice")
    /\ ret' = Pending
    /\ UNCHANGED store

\* the array the call read kept in a field of the store that every call
\* overwrites: the call resumed computes from the array read last
PredictPriceResume_sharedHistory(i, d) ==
    /\ Suspended(i, "predictPrice", "getPriceHistoryByCropTypeAndLocation")
    /\ call' = [op |-> "predictPrice", cropTypeId |-> awaiting[i].cropTypeId,
                location |-> awaiting[i].location, quality |-> awaiting[i].quality,
                random |-> d, seen |-> awaiting[i].seen]
    /\ ret' = resumePredictPrice(awaiting[Len(awaiting)].history, awaiting[i].quality, d)
    /\ awaiting' = Remove(awaiting, i)
    /\ UNCHANGED store

\* the i-th suspended call resumed: the rest of predictPrice, on its own array
PredictPriceResume(i, d) ==
    /\ Suspended(i, "predictPrice", "getPriceHistoryByCropTypeAndLocation")
    /\ call' = [op |-> "predictPrice", cropTypeId |-> awaiting[i].cropTypeId,
                location |-> awaiting[i].location, quality |-> awaiting[i].quality,
                random |-> d, seen |-> awaiting[i].seen]
    /\ ret' = resumePredictPrice(awaiting[i].history, awaiting[i].quality, d)
    /\ awaiting' = Remove(awaiting, i)
    /\ UNCHANGED store

---------------------------------------------------------------------------
(* Crop type lookup *)

\* String.prototype.toLowerCase, letter by letter: a letter from A to Z becomes
\* its small letter and every other character stays (the strings of the model
\* hold no letters outside A-Z and a-z).
UpperLetters == "ABCDEFGHIJKLMNOPQRSTUVWXYZ"
LowerLetters == "abcdefghijklmnopqrstuvwxyz"

lowerChar(c) ==
    IF \E k \in 1..Len(UpperLetters) : SubSeq(UpperLetters, k, k) = c
    THEN LET k == CHOOSE k \in 1..Len(UpperLetters) : SubSeq(UpperLetters, k, k) = c
         IN  SubSeq(LowerLetters, k, k)
    ELSE c

RECURSIVE lowerFrom(_, _)
lowerFrom(s, i) ==
    IF i > Len(s) THEN "" ELSE lowerChar(SubSeq(s, i, i)) \o lowerFrom(s, i + 1)

toLowerCase(s) == lowerFrom(s, 1)

\* A JSON value of a request body that should be a string: a string, a
\* number, a boolean (n is 1 for true, 0 for false), null, or the field absent
Str(s) == [kind |-> "string", s |-> s, n |-> 0]
Num(n) == [kind |-> "number", s |-> "", n |-> n]
Bool(b) == [kind |-> "boolean", s |-> "", n |-> IF b THEN 1 ELSE 0]
Null == [kind |-> "null", s |-> "", n |-> 0]
Undefined == [kind |-> "undefined", s |-> "", n |-> 0]
\* a value that is no string and is truthy
NotAString == Num(123)
\* the values that are no string and are falsy: 0, false, null
FalsyNames == {Num(0), Bool(FALSE), Null}
\* what if (v) and !v make of a value: the empty string, 0, false, null and
\* undefined are falsy
Truthy(v) ==
    \/ v.kind = "string" /\ v.s # ""
    \/ v.kind \in {"number", "boolean"} /\ v.n # 0

\* getCropTypeByName: the first crop type of that name, letter case ignored;
\* name.toLowerCase() throws a TypeError when name is no string and the loop runs.
getCropTypeByName(ct, name) ==
    LET values == MapValues(ct)
        hits == {i \in 1..Len(values) : toLowerCase(values[i].name) = toLowerCase(name.s)}
    IN  IF name.kind # "string"
        THEN (IF Len(values) = 0 THEN [threw |-> FALSE, found |-> FALSE]
              ELSE [threw |-> TRUE, found |-> FALSE])
        ELSE IF hits = {} THEN [threw |-> FALSE, found |-> FALSE]
        ELSE [threw |-> FALSE, found |-> TRUE,
              cropType |-> values[CHOOSE i \in hits : \A j \in hits : i <= j]]

---------------------------------------------------------------------------
(* POST /api/predict-price *)

\* Math.round of a fraction: the nearest integer. A fraction halfway between
\* two integers is rounded up when the arithmetic is exact; the double that
\* stands for it lies on either side, up says on which.
mathRound(r, up) ==
    LET n == 2 * r[1] + r[2]
        q == n \div (2 * r[2])
    IN  IF n % (2 * r[2]) = 0 /\ ~up THEN q - 1 ELSE q

\* Math.floor in place of Math.round
roundedPrice_floor(price, up) == price[1] \div price[2]

\* Math.round(price * 100) / 100, in cents
roundedPrice(price, up) == mathRound(price, up)
\* Math.round((roundedPrice * 0.9) * 100) / 100, in cents
minPrice(rounded, up) == mathRound(Rat(rounded * 9, 10), up)
\* Math.round((roundedPrice * 1.1) * 100) / 100, in cents
maxPrice(rounded, up) == mathRound(Rat(rounded * 11, 10), up)

\* Math.random() > 0.5 ? "above" : "below"
marketComparison(d) == IF 2 * d > RandomScale THEN "above" ELSE "below"

\* A response: its status and body, and the storage methods the handler
\* called on the way to it.
Response(status, body, calls) == [status |-> status, body |-> body, calls |-> calls]

ErrorResponse(status, message, calls) ==
    [status |-> status, body |-> [message |-> message], calls |-> calls]

\* no response yet: the handler goes on with the crop type id c
Proceed(c, calls) == [status |-> 0, cropTypeId |-> c, calls |-> calls]

\* !resolvedCropTypeId && cropTypeName
needsLookup(body) == body.cropTypeId = NoId /\ Truthy(body.cropTypeName)

\* The handler resumed with what getCropTypeByName gave: the rejected promise
\* of a call that threw is caught, a name that was not found is refused, the
\* id of the crop type found is taken.
resolveCropType(body, found) ==
    IF found.threw
    THEN ErrorResponse(500, "Internal server error", <<"getCropTypeByName">>)
    ELSE IF ~found.found
    THEN ErrorResponse(400, "Invalid crop type name", <<"getCropTypeByName">>)
    ELSE Proceed(found.cropType.id, <<"getCropTypeByName">>)

\* !resolvedCropTypeId || !location || !quality
missingFields(c, body) ==
    c = NoId \/ body.location = NoString \/ body.quality = NoString

\* The response to a prediction p: d is the value Math.random() gives the
\* handler, ups the sides the three roundings take at a half.
predictPriceResponse(p, d, ups, calls) ==
    LET rounded == roundedPrice(p.price, ups[1])
        lo == minPrice(rounded, ups[2])
        hi == maxPrice(rounded, ups[3])
    IN  [status |-> 200,
         body |-> [minPrice |-> lo,
                   maxPrice |-> hi,
                   priceRange |-> <<"₹", lo, "-", hi>>,
                   averagePrice |-> rounded,
                   marketComparison |-> marketComparison(d)],
         calls |-> Append(calls, "predictPrice"),
         prediction |-> p]

PredictPriceRoute == "POST /api/predict-price"

\* The handler at the await of predictPrice, predictPrice itself at its await:
\* the history is read.
predictPriceRequest(body, c, calls) ==
    [op |-> PredictPriceRoute, pc |-> "getPriceHistoryByCropTypeAndLocation",
     body |-> body, calls |-> calls,
     history |-> getPriceHistoryByCropTypeAndLocation(priceHistory, c, body.location),
     seen |-> Len(priceHistory)]

\* The handler from the resolved crop type id c on: the check of the fields,
\* then the call of predictPrice. i is the place of the request in awaiting,
\* 0 when it was not suspended before.
PredictPriceChecked(i, body, c, calls) ==
    IF missingFields(c, body)
    THEN /\ call' = [op |-> PredictPriceRoute, body |-> body, random |-> <<>>]
         /\ ret' = ErrorResponse(400, "Missing required fields", calls)
         /\ awaiting' = IF i = 0 THEN awaiting ELSE Remove(awaiting, i)
    ELSE /\ call' = Await(PredictPriceRoute)
         /\ ret' = Pending
         /\ awaiting' = IF i = 0
                        THEN Append(awaiting, predictPriceRequest(body, c, calls))
                        ELSE Replace(awaiting, i, predictPriceRequest(body, c, calls))

\* The handler on a request body, up to its first await or to its response
PostPredictPrice(body) ==
    /\ IF needsLookup(body)
       THEN /\ awaiting' = Append(awaiting,
                                  [op |-> PredictPriceRoute, pc |-> "getCropTypeByName",
                                   body |-> body,
                                   found |-> getCropTypeByName(cropTypes, body.cropTypeName)])
            /\ call' = Await(PredictPriceRoute)
            /\ ret' = Pending
       ELSE PredictPriceChecked(0, body, body.cropTypeId, <<>>)
    /\ UNCHANGED store

\* The handler resumed after getCropTypeByName
PostPredictPriceAfterLookup(i) ==
    /\ Suspended(i, PredictPriceRoute, "getCropTypeByName")
    /\ LET body == awaiting[i].body
           r == resolveCropType(body, awaiting[i].found)
       IN  IF r.status # 0
           THEN /\ call' = [op |-> PredictPriceRoute, body |-> body, random |-> <<>>]
                /\ ret' = r
                /\ awaiting' = Remove(awaiting, i)
           ELSE PredictPriceChecked(i, body, r.cropTypeId, r.calls)
    /\ UNCHANGED store

\* predictPrice resumed inside the request: the price is computed with the
\* value d of Math.random() and the handler waits for it
PostPredictPriceInPredictPrice(i, d) ==
    /\ Suspended(i, PredictPriceRoute, "getPriceHistoryByCropTypeAndLocation")
    /\ awaiting' = Replace(awaiting, i,
                           [op |-> PredictPriceRoute, pc |-> "predictPrice",
                            body |-> awaiting[i].body, calls |-> awaiting[i].calls,
                            prediction |-> resumePredictPrice(awaiting[i].history,
                                                              awaiting[i].body.quality, d),
                            random |-> d])
    /\ call' = Await(PredictPriceRoute)
    /\ ret' = Pending
    /\ UNCHANGED store

\* The handler resumed with the price: the roundings and the response
PostPredictPriceAfterPredictPrice(i, d, ups) ==
    /\ Suspended(i, PredictPriceRoute, "predictPrice")
    /\ call' = [op |-> PredictPriceRoute, body |-> awaiting[i].body,
                random |-> <<awaiting[i].random, d>>]
    /\ ret' = predictPriceResponse(awaiting[i].prediction, d, ups, awaiting[i].calls)
    /\ awaiting' = Remove(awaiting, i)
    /\ UNCHANGED store

---------------------------------------------------------------------------
(* Forecast *)

months == <<"May", "Jun", "Jul", "Aug", "Sep", "Oct">>

getCropTypes(ct) == MapValues(ct)

\* the last crop types instead of the first: slice(-3)
topCrops_last(all) == SubSeq(all, Len(all) - Min(TopCrops, Len(all)) + 1, Len(all))

\* cropTypes.slice(0, 3)
topCrops(all) == SubSeq(all, 1, Min(TopCrops, Len(all)))

\* a draw scaled to 0..69 and not shifted
randomForecast_unshifted(d) == (d * 70) \div RandomScale

\* the values d for which the double (d / RandomScale) * 50 lies below the
\* product it stands for: 0.58 * 50 is 28.999999999999996
ProductBelow == {58}

\* Math.floor(Math.random() * 50) + 20, with Math.random() = d / RandomScale
randomForecast(d) ==
    (d * 50) \div RandomScale - (IF d \in ProductBelow THEN 1 ELSE 0) + 20

\* The data of the crop at place pos of topCrops. rnd is the sequence of values
\* Math.random() gives this call, used is how many of them earlier crops took.
forecastData(name, rnd, used) ==
    IF name = "Tomato" THEN <<30, 45, 60, 70, 65, 55>>
    ELSE IF name = "Rice" THEN <<50, 55, 52, 50, 48, 45>>
    ELSE IF name = "Onion" THEN <<20, 25, 40, 50, 65, 70>>
    ELSE [m \in 1..Len(months) |-> randomForecast(rnd[used + m])]

IsNamedCrop(name) == name \in {"Tomato", "Rice", "Onion"}

\* the values of Math.random() the crops before place pos took
RandomUsed(top, pos) ==
    Len(months) * Cardinality({j \in 1..(pos - 1) : ~IsNamedCrop(top[j].name)})

highDemandCrops_two == <<"Green Chillies", "Tomato">>

highDemandCrops == <<"Green Chillies", "Tomato", "Eggplant">>
moderateDemandCrops == <<"Rice", "Onion", "Cauliflower">>
lowDemandCrops == <<"Potato", "Cabbage", "Carrots">>

\* getForecastData from its await on, all the array getCropTypes gave it
resumeGetForecastData(all, rnd) ==
    LET top == topCrops(all)
    IN  [labels |-> months,
         datasets |-> [pos \in 1..Len(top) |->
                          [cropId |-> top[pos].id,
                           cropName |-> top[pos].name,
                           data |-> forecastData(top[pos].name, rnd,
                                                 RandomUsed(top, pos))]],
         demandGroups |-> [high |-> highDemandCrops,
                           moderate |-> moderateDemandCrops,
                           low |-> lowDemandCrops]]

\* what a getForecastData call returns that reads the crop types ct
getForecastData(ct, rnd) == resumeGetForecastData(getCropTypes(ct), rnd)

\* getForecastData up to its await: getCropTypes has run to its end and the
\* call is suspended with the array it returned
GetForecastDataAwait ==
    /\ awaiting' = Append(awaiting, [op |-> "getForecastData", pc |-> "getCropTypes",
                                     cropTypes |-> getCropTypes(cropTypes)])
    /\ call' = Await("getForecastData")
    /\ ret' = Pending
    /\ UNCHANGED store

\* the call that also takes the top crops out of the store
GetForecastDataResume_splices(i, rnd) ==
    /\ Suspended(i, "getForecastData", "getCropTypes")
    /\ call' = [op |-> "getForecastData", random |-> rnd,
                cropTypes |-> awaiting[i].cropTypes,
                again |-> /\ call.op = "getForecastData"
                          /\ call.random = rnd
                          /\ call.cropTypes = awaiting[i].cropTypes]
    /\ ret' = resumeGetForecastData(awaiting[i].cropTypes, rnd)
    /\ awaiting' = Remove(awaiting, i)
    /\ cropTypes' = SubSeq(cropTypes, Min(TopCrops, Len(cropTypes)) + 1, Len(cropTypes))
    /\ UNCHANGED <<users, listings, bids, barterOffers, priceHistory, userId, cropTypeId,
                   listingId, bidId, barterOfferId, priceHistoryId>>

\* The i-th suspended call resumed: the rest of getForecastData, with the
\* values rnd of Math.random(). cropTypes is the array the call read; again:
\* the call completed before it read the same array and drew the same values.
GetForecastDataResume(i, rnd) ==
    /\ Suspended(i, "getForecastData", "getCropTypes")
    /\ call' = [op |-> "getForecastData", random |-> rnd,
                cropTypes |-> awaiting[i].cropTypes,
                again |-> /\ call.op = "getForecastData"
                          /\ call.random = rnd
                          /\ call.cropTypes = awaiting[i].cropTypes]
    /\ ret' = resumeGetForecastData(awaiting[i].cropTypes, rnd)
    /\ awaiting' = Remove(awaiting, i)
    /\ UNCHANGED store

CreateCropType(data) ==
    /\ LET id == cropTypeId
           rec == newCropType(data, id)
       IN  /\ cropTypeId' = cropTypeId + 1
           /\ cropTypes' = MapSet(cropTypes, id, rec)
           /\ call' = [op |-> "createCropType", data |-> data]
           /\ ret' = rec
    /\ UNCHANGED <<awaiting, users, listings, bids, barterOffers, priceHistory, userId,
                   listingId, bidId, barterOfferId, priceHistoryId>>

\* sequences of values of Math.random(), enough for three crops: one that
\* starts at the least value and reaches the greatest, one of the value whose
\* product falls below, one that starts at the greatest value
RandomStreams ==
    {[k \in 1..(TopCrops * Len(months)) |-> (ab[1] + ab[2] * (k - 1)) % RandomScale] :
        ab \in {<<0, 33>>, <<58, 0>>, <<RandomScale - 1, 33>>}}

\* names of the crop types created after construction: one the forecast has
\* a curve for, one it has none for
ForecastCropNames == {"Onion", "Maize"}

\* the forecast on the constructed store and on those createCropType makes of it
NextForecast ==
    \/ /\ cropTypeId <= Len(SeedCropNames) + MaxCropTypes
       /\ \E name \in ForecastCropNames : CreateCropType([name |-> name])
    \/ /\ Len(awaiting) < MaxAwaiting
       /\ GetForecastDataAwait
    \/ \E i \in 1..Len(awaiting), rnd \in RandomStreams : GetForecastDataResume(i, rnd)

SpecForecast == Init /\ [][NextForecast]_vars

---------------------------------------------------------------------------
(* The price predictor on the constructed store *)

\* what new Date() reads: the time of construction, or a month later
Times == {SeedMonths - 1, SeedMonths}

\* values of Math.random(): the least, the middle, the greatest
Draws == {0, RandomScale \div 2, RandomScale - 1}

\* what createPriceHistory is called with
HistoryInputs ==
    {[cropTypeId |-> 1, location |-> "Delhi", quality |-> "A",
      price |-> 1000, recordedDate |-> 7],
     [cropTypeId |-> 1, location |-> "Delhi", quality |-> "A",
      price |-> 10000, recordedDate |-> NoDate],
     [cropTypeId |-> 1, location |-> "Pune", quality |-> "A",
      price |-> 4001, recordedDate |-> 4],
     [cropTypeId |-> 2, location |-> "Delhi", quality |-> "A",
      price |-> 500, recordedDate |-> 7],
     [cropTypeId |-> 1, location |-> "delhi", quality |-> "A",
      price |-> 500, recordedDate |-> 7],
     [cropTypeId |-> 1, location |-> "Delhi", quality |-> "B",
      price |-> 500, recordedDate |-> 7],
     [cropTypeId |-> 1, location |-> "Delhi", quality |-> "C",
      price |-> -500, recordedDate |-> NoDate]}

\* what predictPrice is called with
Queries ==
    {[cropTypeId |-> 1, location |-> "Delhi", quality |-> q] : q \in {"A", "B", "C"}}
    \cup {[cropTypeId |-> 1, location |-> "Pune", quality |-> "A"],
          [cropTypeId |-> 2, location |-> "Delhi", quality |-> "A"],
          [cropTypeId |-> 1, location |-> "delhi", quality |-> "A"]}

NextPredict ==
    \/ /\ priceHistoryId <= SeedHistoryCount + MaxNewHistory
       /\ \E data \in HistoryInputs, now \in Times : CreatePriceHistory(data, now)
    \/ /\ Len(awaiting) < MaxInFlight
       /\ \E q \in Queries : PredictPriceAwait(q.cropTypeId, q.location, q.quality)
    \/ \E i \in 1..Len(awaiting), d \in {0, RandomScale - 1} : PredictPriceResume(i, d)

SpecPredict == Init /\ [][NextPredict]_vars

---------------------------------------------------------------------------
(* POST /api/predict-price on the constructed store *)

RouteHistoryInputs ==
    {[cropTypeId |-> 1, location |-> "Delhi", quality |-> "A",
      price |-> p, recordedDate |-> NoDate] : p \in {10000, 1005, -500}}

\* the sides the roundings of averagePrice, minPrice and maxPrice take at a half
Halves == {<<TRUE, TRUE, TRUE>>, <<TRUE, FALSE, TRUE>>, <<FALSE, TRUE, FALSE>>}

\* request bodies
Bodies ==
    {[cropTypeId |-> c, cropTypeName |-> n, location |-> l, quality |-> "A"] :
        c \in {NoId, 1}, n \in {Undefined, Str("RICE"), Str("Mango"), NotAString},
        l \in {NoString, "Delhi"}}
    \cup {[cropTypeId |-> 1, cropTypeName |-> Undefined, location |-> "Pune",
           quality |-> q] : q \in {NoString, "A"}}
    \cup {[cropTypeId |-> NoId, cropTypeName |-> n, location |-> "Delhi",
           quality |-> "A"] : n \in FalsyNames}
    \cup {[cropTypeId |-> 1, cropTypeName |-> Num(0), location |-> "Delhi",
           quality |-> "A"]}

NextRoute ==
    \/ /\ priceHistoryId <= SeedHistoryCount + MaxNewHistory
       /\ \E data \in RouteHistoryInputs : CreatePriceHistory(data, SeedMonths)
    \/ /\ Len(awaiting) < MaxInFlight
       /\ \E body \in Bodies : PostPredictPrice(body)
    \/ \E i \in 1..Len(awaiting) : PostPredictPriceAfterLookup(i)
    \/ \E i \in 1..Len(awaiting), d \in Draws : PostPredictPriceInPredictPrice(i, d)
    \/ \E i \in 1..Len(awaiting), d \in {0, RandomScale - 1}, ups \in Halves :
          PostPredictPriceAfterPredictPrice(i, d, ups)

SpecRoute == Init /\ [][NextRoute]_vars

---------------------------------------------------------------------------
(* predictPrice calls interleaved at their await *)

\* what createPriceHistory is called with between the calls
AsyncHistoryInputs ==
    {[cropTypeId |-> 1, location |-> "Delhi", quality |-> "A",
      price |-> p, recordedDate |-> NoDate] : p \in {1000, 10000}}
    \cup {[cropTypeId |-> 1, location |-> "Delhi", quality |-> "B",
           price |-> 500, recordedDate |-> 7]}

\* what the interleaved predictPrice calls are called with
AsyncQueries ==
    {[cropTypeId |-> 1, location |-> "Delhi", quality |-> "A"],
     [cropTypeId |-> 1, location |-> "Delhi", quality |-> "B"],
     [cropTypeId |-> 1, location |-> "Pune", quality |-> "A"]}

NextAsync ==
    \/ /\ priceHistoryId <= SeedHistoryCount + MaxNewHistory
       /\ \E data \in AsyncHistoryInputs : CreatePriceHistory(data, SeedMonths)
    \/ /\ Len(awaiting) < MaxAwaiting
       /\ \E q \in AsyncQueries : PredictPriceAwait(q.cropTypeId, q.location, q.quality)
    \/ \E i \in 1..Len(awaiting), d \in {0, RandomScale - 1} : PredictPriceResume(i, d)

SpecAsync == Init /\ [][NextAsync]_vars

---------------------------------------------------------------------------
(* The other store operations *)

\* what an operation returns for an id the collection does not hold
NotFound == [undefined |-> TRUE]

CreateUser(data) ==
    /\ LET id == userId
           rec == newUser(data, id)
       IN  /\ userId' = userId + 1
           /\ users' = MapSet(users, id, rec)
           /\ call' = [op |-> "createUser", data |-> data]
           /\ ret' = rec
    /\ UNCHANGED <<awaiting, cropTypes, listings, bids, barterOffers, priceHistory, cropTypeId,
                   listingId, bidId, barterOfferId, priceHistoryId>>

CreateListing(data, now) ==
    /\ LET id == listingId
           rec == newListing(data, id, now)
       IN  /\ listingId' = listingId + 1
           /\ listings' = MapSet(listings, id, rec)
           /\ call' = [op |-> "createListing", data |-> data]
           /\ ret' = rec
    /\ UNCHANGED <<awaiting, users, cropTypes, bids, barterOffers, priceHistory, userId,
                   cropTypeId, bidId, barterOfferId, priceHistoryId>>

\* { ...listing, ...listingUpdate } stored under id, when id is a key
UpdateListing(id, listingUpdate) ==
    /\ call' = [op |-> "updateListing", id |-> id, data |-> listingUpdate]
    /\ IF MapHas(listings, id)
       THEN LET rec == Spread(MapGet(listings, id), listingUpdate)
            IN  listings' = MapSet(listings, id, rec) /\ ret' = rec
       ELSE listings' = listings /\ ret' = NotFound
    /\ UNCHANGED <<awaiting, users, cropTypes, bids, barterOffers, priceHistory, userId,
                   cropTypeId, listingId, bidId, barterOfferId, priceHistoryId>>

CreateBid(data, now) ==
    /\ LET id == bidId
           rec == newBid(data, id, now)
       IN  /\ bidId' = bidId + 1
           /\ bids' = MapSet(bids, id, rec)
           /\ call' = [op |-> "createBid", data |-> data]
           /\ ret' = rec
    /\ UNCHANGED <<awaiting, users, cropTypes, listings, barterOffers, priceHistory, userId,
                   cropTypeId, listingId, barterOfferId, priceHistoryId>>

UpdateBidStatus(id, status) ==
    /\ call' = [op |-> "updateBidStatus", id |-> id, status |-> status]
    /\ IF MapHas(bids, id)
       THEN LET rec == Spread(MapGet(bids, id), [status |-> status])
            IN  bids' = MapSet(bids, id, rec) /\ ret' = rec
       ELSE bids' = bids /\ ret' = NotFound
    /\ UNCHANGED <<awaiting, users, cropTypes, listings, barterOffers, priceHistory, userId,
                   cropTypeId, listingId, bidId, barterOfferId, priceHistoryId>>

CreateBarterOffer(data, now) ==
    /\ LET id == barterOfferId
           rec == newBarterOffer(data, id, now)
       IN  /\ barterOfferId' = barterOfferId + 1
           /\ barterOffers' = MapSet(barterOffers, id, rec)
           /\ call' = [op |-> "createBarterOffer", data |-> data]
           /\ ret' = rec
    /\ UNCHANGED <<awaiting, users, cropTypes, listings, bids, priceHistory, userId,
                   cropTypeId, listingId, bidId, priceHistoryId>>

UpdateBarterOfferStatus(id, status) ==
    /\ call' = [op |-> "updateBarterOfferStatus", id |-> id, status |-> status]
    /\ IF MapHas(barterOffers, id)
       THEN LET rec == Spread(MapGet(barterOffers, id), [status |-> status])
            IN  barterOffers' = MapSet(barterOffers, id, rec) /\ ret' = rec
       ELSE barterOffers' = barterOffers /\ ret' = NotFound
    /\ UNCHANGED <<awaiting, users, cropTypes, listings, bids, priceHistory, userId,
                   cropTypeId, listingId, bidId, barterOfferId, priceHistoryId>>

getPriceHistory(ph) == MapValues(ph)

GetPriceHistory ==
    /\ call' = [op |-> "getPriceHistory"]
    /\ ret' = getPriceHistory(priceHistory)
    /\ UNCHANGED <<store, awaiting>>

GetPriceHistoryByCropTypeAndLocation(c, location) ==
    /\ call' = [op |-> "getPriceHistoryByCropTypeAndLocation",
                cropTypeId |-> c, location |-> location]
    /\ ret' = getPriceHistoryByCropTypeAndLocation(priceHistory, c, location)
    /\ UNCHANGED <<store, awaiting>>

---------------------------------------------------------------------------
(* The handlers of routes.ts that write to the store *)

\* parseInt on the strings the model uses as path parameters: the number the
\* string starts with, NaN when it starts with none
parseInt(s) ==
    CASE s = "1" -> [isNaN |-> FALSE, n |-> 1]
      [] s = "2" -> [isNaN |-> FALSE, n |-> 2]
      [] s = "4" -> [isNaN |-> FALSE, n |-> 4]
      [] s = "9" -> [isNaN |-> FALSE, n |-> 9]
      [] s = "1x" -> [isNaN |-> FALSE, n |-> 1]
      [] OTHER -> [isNaN |-> TRUE, n |-> 0]

\* schema.safeParse(input) of the schemas of @shared/schema, valid what the
\* schema decides about the input. The data of a successful parse are the
\* input with all it carries: a bid is an offer against a listing and keeps its
\* listingId, and no field is taken to be removed.
safeParse(input, valid) ==
    IF valid THEN [success |-> TRUE, data |-> input] ELSE [success |-> FALSE]

\* fromZodError(result.error).message
ValidationMessage == "Validation error"

\* new Date(s) of a string: a time, or an Invalid Date
newDate(s) ==
    CASE s = "2024-05-01" -> [invalid |-> FALSE, t |-> 4]
      [] OTHER -> [invalid |-> TRUE, t |-> 0]

\* a harvestedDate of a parsed body: a string or a Date
DateString(s) == [kind |-> "string", s |-> s, t |-> 0]
DateObject(t) == [kind |-> "date", s |-> "", t |-> t]

\* the place a request takes in awaiting when it is suspended: behind the
\* others when it was not suspended before (i = 0), else where it was
Suspend(i, rec) ==
    IF i = 0 THEN Append(awaiting, rec) ELSE Replace(awaiting, i, rec)
\* awaiting when the request at place i has been answered
Answered(i) == IF i = 0 THEN awaiting ELSE Remove(awaiting, i)

ListingsRoute == "POST /api/listings"

\* POST /api/listings from the resolved crop type id c on: the harvested date
\* is made a Date, createListing runs and the handler waits for it.
PostListingsCreate(i, req, data, c, calls, now) ==
    LET isString == data.harvestedDate.kind = "string"
        parsed == newDate(data.harvestedDate.s)
        harvestedDate == IF isString THEN DateObject(parsed.t) ELSE data.harvestedDate
        rec == newListing(Spread(data, [cropTypeId |-> c,
                                        harvestedDate |-> harvestedDate]),
                          listingId, now)
    IN  IF isString /\ parsed.invalid
        THEN /\ call' = req
             /\ ret' = ErrorResponse(400, "Invalid harvested date format", calls)
             /\ awaiting' = Answered(i)
             /\ UNCHANGED <<listings, listingId>>
        ELSE /\ listings' = MapSet(listings, listingId, rec)
             /\ listingId' = listingId + 1
             /\ awaiting' = Suspend(i, [op |-> ListingsRoute, pc |-> "createListing",
                                        req |-> req, listing |-> rec,
                                        calls |-> Append(calls, "createListing")])
             /\ call' = Await(ListingsRoute)
             /\ ret' = Pending

\* POST /api/listings up to its first await or to its response
PostListings(body, valid, now) ==
    LET result == safeParse(body, valid)
        req == [op |-> ListingsRoute, body |-> body, valid |-> valid]
    IN  /\ IF ~result.success
           THEN /\ call' = req
                /\ ret' = ErrorResponse(400, ValidationMessage, <<>>)
                /\ UNCHANGED <<awaiting, listings, listingId>>
           ELSE IF needsLookup(result.data)
           THEN /\ awaiting' = Append(awaiting,
                                      [op |-> ListingsRoute, pc |-> "getCropTypeByName",
                                       req |-> req, data |-> result.data,
                                       found |-> getCropTypeByName(
                                                    cropTypes, result.data.cropTypeName)])
                /\ call' = Await(ListingsRoute)
                /\ ret' = Pending
                /\ UNCHANGED <<listings, listingId>>
           ELSE PostListingsCreate(0, req, result.data, result.data.cropTypeId, <<>>, now)
        /\ UNCHANGED <<users, cropTypes, bids, barterOffers, priceHistory,
                       userId, cropTypeId, bidId, barterOfferId, priceHistoryId>>

\* POST /api/listings resumed after getCropTypeByName
PostListingsAfterLookup(i, now) ==
    /\ Suspended(i, ListingsRoute, "getCropTypeByName")
    /\ LET a == awaiting[i]
           calls == <<"getCropTypeByName">>
       IN  IF a.found.threw
           THEN /\ call' = a.req
                /\ ret' = ErrorResponse(
                             500, "Internal server error: name.toLowerCase is not a function",
                             calls)
                /\ awaiting' = Remove(awaiting, i)
                /\ UNCHANGED <<listings, listingId>>
           ELSE IF ~a.found.found
           THEN /\ call' = a.req
                /\ ret' = ErrorResponse(400, "Invalid crop type name", calls)
                /\ awaiting' = Remove(awaiting, i)
                /\ UNCHANGED <<listings, listingId>>
           ELSE PostListingsCreate(i, a.req, a.data, a.found.cropType.id, calls, now)
    /\ UNCHANGED <<users, cropTypes, bids, barterOffers, priceHistory,
                   userId, cropTypeId, bidId, barterOfferId, priceHistoryId>>

\* POST /api/listings resumed after createListing: the listing is the response
PostListingsAfterCreate(i) ==
    /\ Suspended(i, ListingsRoute, "createListing")
    /\ call' = awaiting[i].req
    /\ ret' = Response(201, awaiting[i].listing, awaiting[i].calls)
    /\ awaiting' = Remove(awaiting, i)
    /\ UNCHANGED store

BidsRoute == "POST /api/listings/:listingId/bids"

\* the path's listing id put before the body: { listingId, ...req.body }
bidInput_bodyFirst(body, id) == Spread([listingId |-> id], body)

\* { ...req.body, listingId }
bidInput(body, id) == Spread(body, [listingId |-> id])

\* POST /api/listings/:listingId/bids up to its await of getListing, or to its
\* response
PostBids(param, body, valid) ==
    LET listingIdParsed == parseInt(param)
        req == [op |-> BidsRoute, listingId |-> param, body |-> body, valid |-> valid]
    IN  /\ IF listingIdParsed.isNaN
           THEN /\ call' = req
                /\ ret' = ErrorResponse(400, "Invalid listing ID", <<>>)
                /\ awaiting' = awaiting
           ELSE /\ awaiting' = Append(awaiting,
                                      [op |-> BidsRoute, pc |-> "getListing", req |-> req,
                                       listing |-> IF MapHas(listings, listingIdParsed.n)
                                                   THEN MapGet(listings, listingIdParsed.n)
                                                   ELSE NotFound])
                /\ call' = Await(BidsRoute)
                /\ ret' = Pending
        /\ UNCHANGED store

\* the handler resumed after getListing: the listing is checked, the body is
\* parsed with the listing id of the path, createBid runs and the handler
\* waits for it
PostBidsAfterGetListing(i, now) ==
    /\ Suspended(i, BidsRoute, "getListing")
    /\ LET a == awaiting[i]
           result == safeParse(bidInput(a.req.body, parseInt(a.req.listingId).n),
                               a.req.valid)
           rec == newBid(result.data, bidId, now)
       IN  IF a.listing = NotFound
           THEN /\ call' = a.req
                /\ ret' = ErrorResponse(404, "Listing not found", <<"getListing">>)
                /\ awaiting' = Remove(awaiting, i)
                /\ UNCHANGED <<bids, bidId>>
           ELSE IF ~result.success
           THEN /\ call' = a.req
                /\ ret' = ErrorResponse(400, ValidationMessage, <<"getListing">>)
                /\ awaiting' = Remove(awaiting, i)
                /\ UNCHANGED <<bids, bidId>>
           ELSE /\ bids' = MapSet(bids, bidId, rec)
                /\ bidId' = bidId + 1
                /\ awaiting' = Replace(awaiting, i,
                                       [op |-> BidsRoute, pc |-> "createBid",
                                        req |-> a.req, bid |-> rec])
                /\ call' = Await(BidsRoute)
                /\ ret' = Pending
    /\ UNCHANGED <<users, cropTypes, listings, barterOffers, priceHistory,
                   userId, cropTypeId, listingId, barterOfferId, priceHistoryId>>

\* the handler resumed after createBid: the bid is the response
PostBidsAfterCreateBid(i) ==
    /\ Suspended(i, BidsRoute, "createBid")
    /\ call' = awaiting[i].req
    /\ ret' = Response(201, awaiting[i].bid, <<"getListing", "createBid">>)
    /\ awaiting' = Remove(awaiting, i)
    /\ UNCHANGED store

BarterRoute == "POST /api/barter-offers"

\* POST /api/barter-offers up to its await of createBarterOffer, which has run,
\* or to its response
PostBarterOffers(body, valid, now) ==
    LET result == safeParse(body, valid)
        rec == newBarterOffer(result.data, barterOfferId, now)
        req == [op |-> BarterRoute, body |-> body, valid |-> valid]
    IN  /\ IF ~result.success
           THEN /\ call' = req
                /\ ret' = ErrorResponse(400, ValidationMessage, <<>>)
                /\ UNCHANGED <<awaiting, barterOffers, barterOfferId>>
           ELSE /\ barterOffers' = MapSet(barterOffers, barterOfferId, rec)
                /\ barterOfferId' = barterOfferId + 1
                /\ awaiting' = Append(awaiting,
                                      [op |-> BarterRoute, pc |-> "createBarterOffer",
                                       req |-> req, barterOffer |-> rec])
                /\ call' = Await(BarterRoute)
                /\ ret' = Pending
        /\ UNCHANGED <<users, cropTypes, listings, bids, priceHistory,
                       userId, cropTypeId, listingId, bidId, priceHistoryId>>

\* the handler resumed after createBarterOffer: the offer is the response
PostBarterOffersAfterCreate(i) ==
    /\ Suspended(i, BarterRoute, "createBarterOffer")
    /\ call' = awaiting[i].req
    /\ ret' = Response(201, awaiting[i].barterOffer, <<"createBarterOffer">>)
    /\ awaiting' = Remove(awaiting, i)
    /\ UNCHANGED store

StatusRoute == "PUT /api/barter-offers/:id/status"

\* the statuses PUT /api/barter-offers/:id/status lets through
AcceptedStatuses == {"accepted", "rejected"}

\* the handler without the check of the status
invalidStatus_never(status) == FALSE

\* !status || !["accepted", "rejected"].includes(status)
invalidStatus(status) == status = NoString \/ status \notin AcceptedStatuses

\* PUT /api/barter-offers/:id/status up to its await of
\* updateBarterOfferStatus, which has run, or to its response
PutBarterOfferStatus(param, status) ==
    LET id == parseInt(param)
        rec == Spread(MapGet(barterOffers, id.n), [status |-> status])
        req == [op |-> StatusRoute, id |-> param, status |-> status]
    IN  /\ IF id.isNaN
           THEN /\ call' = req
                /\ ret' = ErrorResponse(400, "Invalid barter offer ID", <<>>)
                /\ UNCHANGED <<awaiting, barterOffers>>
           ELSE IF invalidStatus(status)
           THEN /\ call' = req
                /\ ret' = ErrorResponse(400, "Invalid status", <<>>)
                /\ UNCHANGED <<awaiting, barterOffers>>
           ELSE /\ barterOffers' = IF MapHas(barterOffers, id.n)
                                   THEN MapSet(barterOffers, id.n, rec)
                                   ELSE barterOffers
                /\ awaiting' = Append(awaiting,
                                      [op |-> StatusRoute, pc |-> "updateBarterOfferStatus",
                                       req |-> req,
                                       updatedOffer |-> IF MapHas(barterOffers, id.n)
                                                        THEN rec ELSE NotFound])
                /\ call' = Await(StatusRoute)
                /\ ret' = Pending
        /\ UNCHANGED <<users, cropTypes, listings, bids, priceHistory, userId,
                       cropTypeId, listingId, bidId, barterOfferId, priceHistoryId>>

\* the handler resumed after updateBarterOfferStatus
PutBarterOfferStatusAfterUpdate(i) ==
    /\ Suspended(i, StatusRoute, "updateBarterOfferStatus")
    /\ call' = awaiting[i].req
    /\ ret' = IF awaiting[i].updatedOffer = NotFound
              THEN ErrorResponse(404, "Barter offer not found",
                                 <<"updateBarterOfferStatus">>)
              ELSE Response(200, awaiting[i].updatedOffer, <<"updateBarterOfferStatus">>)
    /\ awaiting' = Remove(awaiting, i)
    /\ UNCHANGED store

\* request bodies of POST /api/listings
ListingBodies ==
    {[userId |-> 1, cropTypeId |-> NoId, cropTypeName |-> n, price |-> 1800,
      harvestedDate |-> DateString("2024-05-01")] : n \in {Str("RICE"), Str("Mango")}}
    \cup {[userId |-> 1, cropTypeId |-> 2, cropTypeName |-> Undefined, price |-> 1800,
           harvestedDate |-> h] : h \in {DateString("soon"), DateObject(3)}}

\* the requests POST /api/listings: every body the schema lets through, and
\* one it does not
ListingRequests ==
    {[body |-> b, valid |-> TRUE] : b \in ListingBodies}
    \cup {[body |-> [userId |-> 1, cropTypeId |-> 2, cropTypeName |-> Undefined,
                     price |-> 1800, harvestedDate |-> DateObject(3)],
           valid |-> FALSE]}

\* request bodies of POST /api/listings/:listingId/bids
BidBodies ==
    {[userId |-> 4, amount |-> 4000],
     [userId |-> 4, amount |-> 4000, listingId |-> 9, id |-> 7, status |-> "accepted"]}

\* the requests POST /api/listings/:listingId/bids: for a seeded listing, for
\* the id the next listing created takes, for an id no listing takes, for
\* parameters parseInt reads in part or not at all
BidRequests ==
    {[param |-> "1", body |-> b, valid |-> v] : b \in BidBodies, v \in BOOLEAN}
    \cup {[param |-> "4", body |-> [userId |-> 4, amount |-> 4000, listingId |-> 9,
                                    id |-> 7, status |-> "accepted"], valid |-> TRUE],
          [param |-> "9", body |-> [userId |-> 4, amount |-> 4000], valid |-> TRUE],
          [param |-> "1x", body |-> [userId |-> 4, amount |-> 4000], valid |-> TRUE],
          [param |-> "abc", body |-> [userId |-> 4, amount |-> 4000], valid |-> TRUE]}

\* request bodies of POST /api/barter-offers
BarterBodies ==
    {[offerUserId |-> 1, receiverUserId |-> 2, offerCropTypeId |-> 1,
      receiverCropTypeId |-> 3],
     [offerUserId |-> 1, receiverUserId |-> 2, offerCropTypeId |-> 1,
      receiverCropTypeId |-> 3, status |-> "withdrawn", id |-> 7]}

\* the requests POST /api/barter-offers
BarterRequests ==
    {[body |-> b, valid |-> TRUE] : b \in BarterBodies}
    \cup {[body |-> [offerUserId |-> 1, receiverUserId |-> 2, offerCropTypeId |-> 1,
                     receiverCropTypeId |-> 3], valid |-> FALSE]}

\* the requests PUT /api/barter-offers/:id/status: every status for the first
\* barter offer, and a status the handler lets through for an id no barter
\* offer has and for a parameter that is no number
StatusInputs == {NoString, "accepted", "rejected", "pending", "withdrawn"}
StatusRequests ==
    {[param |-> "1", status |-> st] : st \in StatusInputs}
    \cup {[param |-> "2", status |-> "rejected"], [param |-> "abc", status |-> "accepted"]}

---------------------------------------------------------------------------
(* The store after construction, under every operation *)

\* records created after construction
NewRecords ==
    (userId + cropTypeId + listingId + bidId + barterOfferId + priceHistoryId)
    - (Len(SeedUsers) + Len(SeedCropNames) + Len(SeedListings) + SeedHistoryCount + 6)

Next ==
    \/ /\ NewRecords < MaxNewRecords
       /\ CreateUser([username |-> "buyer2", location |-> "Delhi", role |-> "buyer"])
    \/ /\ NewRecords < MaxNewRecords
       /\ CreateCropType([name |-> "Mango"])
    \/ /\ NewRecords < MaxNewRecords
       /\ CreateListing([userId |-> 1, cropTypeId |-> 5, price |-> 1800,
                         quality |-> "B", location |-> "Delhi", isActive |-> TRUE],
                        SeedMonths)
    \/ \E id \in {1, 4}, upd \in {[isActive |-> FALSE], [price |-> 100, id |-> 9]} :
          UpdateListing(id, upd)
    \/ /\ NewRecords < MaxNewRecords
       /\ CreateBid([listingId |-> 1, userId |-> 4, amount |-> 4000], SeedMonths)
    \/ UpdateBidStatus(1, "accepted")
    \/ /\ NewRecords < MaxNewRecords
       /\ CreateBarterOffer([offerUserId |-> 1, receiverUserId |-> 2,
                             offerCropTypeId |-> 1, receiverCropTypeId |-> 3,
                             status |-> "accepted"], SeedMonths)
    \/ UpdateBarterOfferStatus(1, "withdrawn")
    \/ /\ NewRecords < MaxNewRecords
       /\ CreatePriceHistory([cropTypeId |-> 1, location |-> "Delhi", quality |-> "A",
                              price |-> 2000, recordedDate |-> NoDate], SeedMonths)
    \/ /\ Len(awaiting) < MaxInFlight
       /\ PredictPriceAwait(1, "Delhi", "A")
    \/ \E i \in 1..Len(awaiting) : PredictPriceResume(i, 0)
    \/ /\ Len(awaiting) < MaxInFlight
       /\ GetForecastDataAwait
    \/ \E i \in 1..Len(awaiting) :
          GetForecastDataResume(i, [k \in 1..(TopCrops * Len(months)) |->
                                       (33 * k) % RandomScale])
    \/ GetPriceHistory
    \/ GetPriceHistoryByCropTypeAndLocation(1, "Delhi")

Spec == Init /\ [][Next]_vars

\* the suspended requests that have not yet run the create call they lead to
PendingCreates ==
    Cardinality({i \in 1..Len(awaiting) :
                    awaiting[i].pc \in {"getCropTypeByName", "getListing"}})

\* room for one more request, and for the record it may create
MayStart == Len(awaiting) < MaxAwaiting /\ NewRecords + PendingCreates < MaxNewRecords

\* The store after construction, under the requests that write to it. A
\* request starts while others are suspended, and the suspended requests are
\* resumed in any order.
NextApi ==
    \/ /\ MayStart
       /\ \E r \in ListingRequests : PostListings(r.body, r.valid, SeedMonths)
    \/ \E i \in 1..Len(awaiting) : PostListingsAfterLookup(i, SeedMonths)
    \/ \E i \in 1..Len(awaiting) : PostListingsAfterCreate(i)
    \/ /\ MayStart
       /\ \E r \in BidRequests : PostBids(r.param, r.body, r.valid)
    \/ \E i \in 1..Len(awaiting) : PostBidsAfterGetListing(i, SeedMonths)
    \/ \E i \in 1..Len(awaiting) : PostBidsAfterCreateBid(i)
    \/ /\ MayStart
       /\ \E r \in BarterRequests : PostBarterOffers(r.body, r.valid, SeedMonths)
    \/ \E i \in 1..Len(awaiting) : PostBarterOffersAfterCreate(i)
    \/ /\ Len(awaiting) < MaxAwaiting
       /\ \E r \in StatusRequests : PutBarterOfferStatus(r.param, r.status)
    \/ \E i \in 1..Len(awaiting) : PutBarterOfferStatusAfterUpdate(i)

SpecApi == Init /\ [][NextApi]_vars

---------------------------------------------------------------------------
(* Claims about the price predictor *)

\* the keys of the price history entries of a crop type, location and quality
Matching(c, location, quality) ==
    {i \in 1..Len(priceHistory) :
        /\ priceHistory[i].value.cropTypeId = c
        /\ priceHistory[i].value.location = location
        /\ priceHistory[i].value.quality = quality}

\* those of them the store held when the call that completed last read it: the
\* collection only grows at its end (C9), so that store is the first call.seen
\* entries of this one
MatchingSeen(quality) ==
    {i \in Matching(call.cropTypeId, call.location, quality) : i <= call.seen}

RECURSIVE PriceSum(_)
PriceSum(S) ==
    IF S = {} THEN 0
    ELSE LET i == CHOOSE x \in S : TRUE
         IN  priceHistory[i].value.price + PriceSum(S \ {i})

\* S holds the n latest of the entries M
Latest(S, M, n) ==
    /\ S \subseteq M
    /\ Cardinality(S) = n
    /\ \A a \in S, b \in M \ S :
          priceHistory[a].value.recordedDate >= priceHistory[b].value.recordedDate

\* C1: when no price history entry of the store a predictPrice call reads has
\* the requested crop type, location and quality, the call returns exactly
\* 20 + bonus (A: 10, B: 5, otherwise 0), in cents, and no random factor is
\* applied.
C1_DefaultPrice ==
    (call.op = "predictPrice" /\ MatchingSeen(call.quality) = {})
    => /\ ret.price = <<(20 + (IF call.quality = "A" THEN 10
                               ELSE IF call.quality = "B" THEN 5 ELSE 0)) * 100, 1>>
       /\ ~ret.jittered

\* predictPrice was asked for a quality without history at a crop type and
\* location that have history of another quality
C1_Witness ==
    /\ call.op = "predictPrice"
    /\ call.quality = "B"
    /\ MatchingSeen("B") = {}
    /\ MatchingSeen("A") # {}
    /\ ret.price = <<2500, 1>>

\* C2: with N >= 1 matching entries in the store a predictPrice call reads, the
\* value the call computes before the random factor is the mean of the prices
\* of min(N, 3) matching entries none of which is older than a matching entry
\* left out.
C2_MeanOfLatest ==
    LET M == MatchingSeen(call.quality)
    IN  (call.op = "predictPrice" /\ M # {})
        => \E S \in SUBSET M :
              /\ Latest(S, M, Min(Cardinality(M), 3))
              /\ RatEq(ret.avg, <<PriceSum(S), Cardinality(S)>>)

\* predictPrice on more than three matching entries, one of the latest three
\* created after the sample data and the mean of the three not the mean of all
C2_Witness ==
    LET M == MatchingSeen(call.quality)
    IN  /\ call.op = "predictPrice"
        /\ Cardinality(M) > 3
        /\ \E S \in SUBSET M :
              /\ Latest(S, M, 3)
              /\ \E i \in S : i > SeedHistoryCount
              /\ RatEq(ret.avg, <<PriceSum(S), 3>>)
              /\ ~RatEq(ret.avg, <<PriceSum(M), Cardinality(M)>>)

\* fewer than three matching entries: the mean of all of them
C2_WitnessFew ==
    LET M == MatchingSeen(call.quality)
    IN  /\ call.op = "predictPrice"
        /\ Cardinality(M) = 2
        /\ RatEq(ret.avg, <<PriceSum(M), 2>>)

\* C3: predictPrice returns a positive value in every state the store
\* operations reach.
C3_AlwaysPositive ==
    call.op = "predictPrice" => RatPositive(ret.price)

---------------------------------------------------------------------------
(* Claims about POST /api/predict-price *)

IsPredictRequest == call.op = "POST /api/predict-price"

\* v is r rounded to the nearest integer
Nearest(v, r) == (2 * v - 1) * r[2] <= 2 * r[1] /\ 2 * r[1] <= (2 * v + 1) * r[2]

\* C4: averagePrice is the prediction rounded to the cent, minPrice and maxPrice
\* are 0.9 and 1.1 times averagePrice rounded to the cent, minPrice <=
\* averagePrice <= maxPrice for a positive prediction, and averagePrice 100.00
\* gives 90.00 and 110.00.
C4_PriceRange ==
    (IsPredictRequest /\ ret.status = 200)
    => LET a == ret.body.averagePrice
           lo == ret.body.minPrice
           hi == ret.body.maxPrice
       IN  /\ Nearest(a, ret.prediction.price)
           /\ Nearest(lo, <<9 * a, 10>>)
           /\ Nearest(hi, <<11 * a, 10>>)
           /\ (RatPositive(ret.prediction.price) => lo <= a /\ a <= hi)
           /\ (a = 10000 => lo = 9000 /\ hi = 11000)

\* a prediction of 100.00 answered with the range 90.00 to 110.00
C4_Witness ==
    /\ IsPredictRequest /\ ret.status = 200
    /\ ret.body.averagePrice = 10000
    /\ ret.body.minPrice = 9000
    /\ ret.body.maxPrice = 11000

\* 0.9 times averagePrice halfway between two cents and minPrice the lower
C4_WitnessHalf ==
    /\ IsPredictRequest /\ ret.status = 200
    /\ ret.body.averagePrice > 0
    /\ (9 * ret.body.averagePrice) % 10 = 5
    /\ 10 * ret.body.minPrice = 9 * ret.body.averagePrice - 5

\* a prediction between two cents, rounded up
C4_WitnessRounded ==
    /\ IsPredictRequest /\ ret.status = 200
    /\ ret.prediction.price[1] % ret.prediction.price[2] # 0
    /\ ret.body.averagePrice * ret.prediction.price[2] > ret.prediction.price[1]

NameGiven == Truthy(call.body.cropTypeName)
NameResolvable ==
    /\ call.body.cropTypeName.kind = "string"
    /\ \E i \in 1..Len(cropTypes) :
          toLowerCase(cropTypes[i].value.name) = toLowerCase(call.body.cropTypeName.s)

\* the request failed with this message: no prediction made, no price returned
Rejected(status, message) ==
    /\ ret.status = status
    /\ ret.body = [message |-> message]
    /\ \A i \in 1..Len(ret.calls) : ret.calls[i] # "predictPrice"
    /\ DOMAIN ret.body \cap {"minPrice", "maxPrice", "averagePrice"} = {}

\* C5 as stated: a request whose crop-type name cannot be resolved fails with
\* the unknown-crop-type error, and any other request that lacks cropTypeId
\* (after resolution), location or quality fails with the missing-field error.
C5_Original ==
    IsPredictRequest
    => /\ (NameGiven /\ ~NameResolvable) => Rejected(400, "Invalid crop type name")
       /\ (/\ ~(NameGiven /\ ~NameResolvable)
           /\ \/ (call.body.cropTypeId = NoId /\ ~NameGiven)
              \/ call.body.location = NoString
              \/ call.body.quality = NoString)
          => Rejected(400, "Missing required fields")

---------------------------------------------------------------------------
(* Claims about the forecast *)

IsForecast == call.op = "getForecastData"

\* the names of the crops of a report, in its order
DatasetNames(report) == [i \in 1..Len(report.datasets) |-> report.datasets[i].cropName]

\* C6: with n crop types in the store a getForecastData call reads (the first
\* n of the store, which only grows), datasets has min(3, n) entries, the i-th
\* with the id and name of the i-th crop type created: Rice, Wheat, Tomato with
\* the sample data. Every store has the ten crop types of the sample data, so
\* for fewer than three crop types the rest of the call is applied to the
\* arrays getCropTypes would give: none for the empty one, two for two.
C6_TopCrops ==
    IsForecast
    => LET n == Len(call.cropTypes)
       IN  /\ n <= Len(cropTypes)
           /\ call.cropTypes = SubSeq(getCropTypes(cropTypes), 1, n)
           /\ Len(ret.datasets) = Min(3, n)
           /\ \A i \in 1..Len(ret.datasets) :
                 /\ ret.datasets[i].cropId = i
                 /\ MapHas(cropTypes, i)
                 /\ ret.datasets[i].cropName = MapGet(cropTypes, i).name
           /\ DatasetNames(ret) = <<"Rice", "Wheat", "Tomato">>
           /\ resumeGetForecastData(<<>>, call.random).datasets = <<>>
           /\ DatasetNames(resumeGetForecastData(SubSeq(call.cropTypes, 1, 2),
                                                 call.random)) = <<"Rice", "Wheat">>

\* the forecast of a call that read the crop types of the sample data and one
\* created after them, completed after another crop type was created
C6_Witness ==
    /\ IsForecast
    /\ Len(call.cropTypes) = Len(SeedCropNames) + 1
    /\ Len(cropTypes) = Len(SeedCropNames) + 2
    /\ DatasetNames(ret) = <<"Rice", "Wheat", "Tomato">>
    /\ [i \in 1..Len(ret.datasets) |-> ret.datasets[i].cropId] = <<1, 2, 3>>

\* C7: every data series has 6 values: the fixed curves of Tomato, Rice and
\* Onion, and integers from 20 to 69 for any other crop. Onion is the fifth
\* crop type of every store and never among the first three, so its curve is
\* read off the series the call computes for that name.
C7_Series ==
    IsForecast
    => /\ \A i \in 1..Len(ret.datasets) :
             LET name == ret.datasets[i].cropName
                 data == ret.datasets[i].data
             IN  /\ Len(data) = 6
                 /\ Len(data) = Len(ret.labels)
                 /\ name = "Tomato" => data = <<30, 45, 60, 70, 65, 55>>
                 /\ name = "Rice" => data = <<50, 55, 52, 50, 48, 45>>
                 /\ name = "Onion" => data = <<20, 25, 40, 50, 65, 70>>
                 /\ name \notin {"Tomato", "Rice", "Onion"}
                       => \A m \in 1..6 : data[m] \in 20..69
       /\ forecastData("Onion", call.random, 0) = <<20, 25, 40, 50, 65, 70>>
       /\ \A used \in {0, Len(months), 2 * Len(months)} :
             \A m \in 1..6 : forecastData("Maize", call.random, used)[m] \in 20..69

\* the forecast of the sample data: the curves of Rice and Tomato, and for
\* Wheat a drawn series that reaches 20 and 69
C7_Witness ==
    /\ IsForecast
    /\ \E i \in 1..Len(ret.datasets) :
          /\ ret.datasets[i].cropName = "Rice"
          /\ ret.datasets[i].data = <<50, 55, 52, 50, 48, 45>>
    /\ \E i \in 1..Len(ret.datasets) :
          /\ ret.datasets[i].cropName = "Tomato"
          /\ ret.datasets[i].data = <<30, 45, 60, 70, 65, 55>>
    /\ \E i \in 1..Len(ret.datasets) :
          /\ ret.datasets[i].cropName = "Wheat"
          /\ \E m \in 1..6 : ret.datasets[i].data[m] = 69
          /\ \E m \in 1..6 : ret.datasets[i].data[m] = 20

\* a drawn value whose product with 50 the double arithmetic puts below 29
C7_WitnessBelow ==
    /\ IsForecast
    /\ \E i \in 1..Len(ret.datasets) :
          /\ ret.datasets[i].cropName = "Wheat"
          /\ call.random[1] = 58
          /\ ret.datasets[i].data[1] = 48

\* C8: whatever crop types the store holds, demandGroups.high is Green Chillies,
\* Tomato, Eggplant, and the moderate and low groups and the six labels are
\* the same constants; the call gives them for an empty array of crop types
\* too, which no store has.
C8_DemandGroups ==
    IsForecast
    => /\ Range(ret.demandGroups.high) = {"Green Chillies", "Tomato", "Eggplant"}
       /\ Len(ret.demandGroups.high) = 3
       /\ ret.demandGroups.moderate = <<"Rice", "Onion", "Cauliflower">>
       /\ ret.demandGroups.low = <<"Potato", "Cabbage", "Carrots">>
       /\ ret.labels = <<"May", "Jun", "Jul", "Aug", "Sep", "Oct">>
       /\ resumeGetForecastData(<<>>, call.random).demandGroups = ret.demandGroups
       /\ resumeGetForecastData(<<>>, call.random).labels = ret.labels

\* the forecast of the store with the sample data only, and of a store with
\* crop types created after them
C8_Witness ==
    /\ IsForecast
    /\ Len(call.cropTypes) > Len(SeedCropNames)
    /\ ret.demandGroups.high = <<"Green Chillies", "Tomato", "Eggplant">>

C8_WitnessSeed ==
    /\ IsForecast
    /\ cropTypes = SeedCropTypes(Len(SeedCropNames))
    /\ ret.demandGroups.high = <<"Green Chillies", "Tomato", "Eggplant">>

\* C10: no step of a getForecastData call changes the store, and a call that
\* completes right after another that read the same crop types and drew the
\* same random values returns the same report.
C10_Repeatable ==
    [][/\ (call'.op = "getForecastData" \/ call' = Await("getForecastData"))
            => store' = store
       /\ (call.op = "getForecastData" /\ call'.op = "getForecastData"
             /\ call'.random = call.random /\ call'.cropTypes = call.cropTypes)
            => ret' = ret]_vars

\* a second call with the same random values on a store with a drawn series
C10_Witness ==
    /\ IsForecast
    /\ call.again
    /\ \E i \in 1..Len(ret.datasets) : ret.datasets[i].cropName = "Wheat"

---------------------------------------------------------------------------
(* Claims about the store *)

\* C9: every step keeps every price history entry as it was; a step of
\* createPriceHistory adds one entry behind them and no other step changes the
\* collection.
C9_AppendOnly ==
    [][/\ Len(priceHistory) <= Len(priceHistory')
       /\ SubSeq(priceHistory', 1, Len(priceHistory)) = priceHistory
       /\ call'.op # "createPriceHistory" => priceHistory' = priceHistory
       /\ call'.op = "createPriceHistory" => Len(priceHistory') = Len(priceHistory) + 1]_vars

\* two entries created after construction, both there after a later read
C9_Witness ==
    /\ call.op \in {"predictPrice", "getForecastData", "getPriceHistory"}
    /\ Len(priceHistory) = SeedHistoryCount + 2
    /\ \A i \in 1..Len(priceHistory) : priceHistory[i].key = i /\ priceHistory[i].value.id = i

---------------------------------------------------------------------------
(* Claims about the entries predictPrice reads *)

\* what predictPrice computes for a request before the random factor: how many
\* entries matched and their average, or the default price
PreJitter(ph, q) ==
    LET p == predictPrice(ph, q.cropTypeId, q.location, q.quality, 0)
    IN  [matched |-> p.matched, avg |-> p.avg]

\* an entry that is not of the crop type, location and quality of a request
Differs(h, q) ==
    \/ h.cropTypeId # q.cropTypeId
    \/ h.location # q.location
    \/ h.quality # q.quality

\* C11: a step that adds a price history entry differing from a request in
\* cropTypeId, in location (be it only in letter case) or in quality leaves
\* what predictPrice computes for that request before the random factor as it
\* was.
C11_OnlyMatching ==
    [][priceHistoryId' = priceHistoryId + 1
         => \A q \in Queries :
               Differs(MapGet(priceHistory', priceHistoryId), q)
                 => PreJitter(priceHistory', q) = PreJitter(priceHistory, q)]_vars

\* an entry for "delhi" added to a store with entries for "Delhi", and the
\* prediction for "Delhi" read after it
C11_Witness ==
    /\ call.op = "predictPrice"
    /\ call.cropTypeId = 1 /\ call.location = "Delhi" /\ call.quality = "A"
    /\ ret.matched = 1
    /\ call.seen = Len(priceHistory)
    /\ Len(priceHistory) = SeedHistoryCount + 2
    /\ priceHistory[Len(priceHistory)].value.location = "delhi"
    /\ priceHistory[Len(priceHistory)].value.cropTypeId = 1
    /\ priceHistory[Len(priceHistory)].value.quality = "A"

\* an entry of another quality added next to entries of the requested one
C11_WitnessQuality ==
    /\ call.op = "createPriceHistory"
    /\ call.data.location = "Delhi" /\ call.data.quality = "B" /\ call.data.cropTypeId = 1
    /\ Matching(1, "Delhi", "A") # {}

---------------------------------------------------------------------------
(* Claims about interleaved predictPrice calls *)

\* the store as it was when it held n price history entries
HistoryAt(n) == SubSeq(priceHistory, 1, n)

\* C12: with predictPrice calls and createPriceHistory calls interleaved at
\* the await of predictPrice, a call is suspended with the matching entries of
\* the history as it is at that moment, every entry a suspended call holds is
\* a whole entry of the store, the result of a call resumed is the result of
\* predictPrice on the history as it was at one moment after construction,
\* whatever the other calls did, and no step of a call changes the store or the array of another
\* call.
C12_Snapshot ==
    [][/\ \A i \in 1..Len(awaiting') : \A j \in 1..Len(awaiting'[i].history) :
             LET h == awaiting'[i].history[j]
             IN  MapHas(priceHistory', h.id) /\ MapGet(priceHistory', h.id) = h
       /\ Len(awaiting') = Len(awaiting) + 1
            => /\ store' = store
               /\ SubSeq(awaiting', 1, Len(awaiting)) = awaiting
               /\ LET a == awaiting'[Len(awaiting')]
                  IN  a.history = getPriceHistoryByCropTypeAndLocation(
                                     priceHistory, a.cropTypeId, a.location)
       /\ Len(awaiting') = Len(awaiting) - 1
            => /\ store' = store
               /\ \E i \in 1..Len(awaiting) : awaiting' = Remove(awaiting, i)
               /\ \E n \in SeedHistoryCount..Len(priceHistory) :
                     ret' = predictPrice(HistoryAt(n), call'.cropTypeId, call'.location,
                                         call'.quality, call'.random)
       /\ Len(awaiting') = Len(awaiting) => awaiting' = awaiting]_vars

\* a call resumed returns the default price although the store holds a
\* matching entry created while it was suspended, and another call that read
\* the entry is still suspended
C12_Witness ==
    /\ call.op = "predictPrice"
    /\ call.cropTypeId = 1 /\ call.location = "Delhi" /\ call.quality = "A"
    /\ ret.matched = 0
    /\ Matching(1, "Delhi", "A") # {}
    /\ Len(awaiting) = 1
    /\ awaiting[1].location = "Delhi" /\ Len(awaiting[1].history) > 0

---------------------------------------------------------------------------
(* Claims about the random factor *)

RECURSIVE Gcd(_, _)
Gcd(a, b) == IF b = 0 THEN a ELSE Gcd(b, a % b)

\* a = b and a <= b for fractions of positive denominators, the denominators
\* divided by their greatest common divisor before the products are taken
SameRat(a, b) ==
    LET g == Gcd(a[2], b[2])
    IN  a[1] * (b[2] \div g) = b[1] * (a[2] \div g)
AtMost(a, b) ==
    LET g == Gcd(a[2], b[2])
    IN  a[1] * (b[2] \div g) <= b[1] * (a[2] \div g)

\* r lies between a and b, whichever of the two is the smaller
Between(r, a, b) ==
    \/ AtMost(a, r) /\ AtMost(r, b)
    \/ AtMost(b, r) /\ AtMost(r, a)

\* C13: with matching history, the price predictPrice returns is the mean m
\* of the selected entries times a factor k / (20 * RandomScale) that is at
\* least 0.95 and at most 1.05, and lies between 0.95 * m and 1.05 * m.
C13_JitterBounds ==
    (call.op = "predictPrice" /\ ret.matched > 0)
    => LET m == ret.avg
       IN  /\ \E k \in (19 * RandomScale)..(21 * RandomScale) :
                 SameRat(ret.price, Rat(m[1] * k, m[2] * 20 * RandomScale))
           /\ Between(ret.price, Rat(19 * m[1], 20 * m[2]), Rat(21 * m[1], 20 * m[2]))

\* the least random value: the price is 0.95 times a positive mean
C13_Witness ==
    /\ call.op = "predictPrice" /\ ret.matched > 0
    /\ call.random = 0
    /\ ret.avg[1] > 0
    /\ SameRat(ret.price, Rat(19 * ret.avg[1], 20 * ret.avg[2]))

\* the greatest random value: the price is above the mean and below 1.05 times it
C13_WitnessHigh ==
    /\ call.op = "predictPrice" /\ ret.matched > 0
    /\ call.random = RandomScale - 1
    /\ AtMost(ret.avg, ret.price) /\ ~SameRat(ret.avg, ret.price)
    /\ ~AtMost(Rat(21 * ret.avg[1], 20 * ret.avg[2]), ret.price)

---------------------------------------------------------------------------
(* Claims about identifiers *)

\* every key of the collection is the id of its record, is below the next id
\* of the collection, and is the key of one entry only
IdsConsistent(m, nextId) ==
    \A i \in 1..Len(m) :
        /\ m[i].value.id = m[i].key
        /\ m[i].key < nextId
        /\ \A j \in 1..Len(m) : m[j].key = m[i].key => j = i

\* C14: after any sequence of store operations each of the six collections
\* maps every key to a record with that id, every key is below the next id of
\* its collection (so the id a create takes was never given before), and no
\* key is held twice.
C14_IdsConsistent ==
    /\ IdsConsistent(users, userId)
    /\ IdsConsistent(cropTypes, cropTypeId)
    /\ IdsConsistent(listings, listingId)
    /\ IdsConsistent(bids, bidId)
    /\ IdsConsistent(barterOffers, barterOfferId)
    /\ IdsConsistent(priceHistory, priceHistoryId)

---------------------------------------------------------------------------
(* Claims about the order of the checks of POST /api/predict-price *)

\* C15: the crop-type name is looked up only when cropTypeId is absent. A
\* request with a cropTypeId and a name that cannot be resolved is not
\* rejected as an unknown crop type; a request without cropTypeId whose name
\* cannot be resolved is answered with the unknown-crop-type error (400),
\* also when its location or quality is missing.
C15_NamePrecedence ==
    IsPredictRequest
    => /\ (call.body.cropTypeId # NoId /\ NameGiven /\ ~NameResolvable)
            => /\ ret.body # [message |-> "Invalid crop type name"]
               /\ \A i \in 1..Len(ret.calls) : ret.calls[i] # "getCropTypeByName"
       /\ (call.body.cropTypeId = NoId /\ NameGiven /\ ~NameResolvable)
            => Rejected(400, "Invalid crop type name")

---------------------------------------------------------------------------
(* Claims about the requests that write barter offers and bids *)

IsPutStatus == call.op = "PUT /api/barter-offers/:id/status"
IsPostBarter == call.op = "POST /api/barter-offers"
IsPostBids == call.op = "POST /api/listings/:listingId/bids"

\* the statuses of the barter offers of the store
BarterStatuses == {barterOffers[i].value.status : i \in 1..Len(barterOffers)}

\* C16: after any sequence of requests every barter offer has the status
\* "pending", "accepted" or "rejected". A barter offer is created with status
\* "pending" whatever the request carries; PUT /api/barter-offers/:id/status
\* with a status other than "accepted" and "rejected" is answered 400 at once
\* and changes nothing; with another status it calls updateBarterOfferStatus,
\* which for an id no barter offer has leaves every barter offer as it was,
\* and is answered 404 then, and else 200 with the status it set.
C16_BarterStatus ==
    [][/\ BarterStatuses' \subseteq {"pending", "accepted", "rejected"}
       /\ barterOfferId' = barterOfferId + 1
            => MapGet(barterOffers', barterOfferId).status = "pending"
       /\ (IsPostBarter' /\ ret'.status = 201) => ret'.body.status = "pending"
       /\ (IsPutStatus' /\ call'.status \notin {"accepted", "rejected"})
            => ret'.status = 400 /\ store' = store /\ awaiting' = awaiting
       /\ (Len(awaiting') = Len(awaiting) + 1
              /\ awaiting'[Len(awaiting')].op = StatusRoute)
            => LET a == awaiting'[Len(awaiting')]
                   id == parseInt(a.req.id).n
               IN  /\ a.req.status \in {"accepted", "rejected"}
                   /\ ~MapHas(barterOffers, id)
                        => barterOffers' = barterOffers /\ a.updatedOffer = NotFound
                   /\ MapHas(barterOffers, id)
                        => /\ MapGet(barterOffers', id).status = a.req.status
                           /\ a.updatedOffer = MapGet(barterOffers', id)
       /\ \A i \in 1..Len(awaiting) :
             (awaiting[i].op = StatusRoute /\ awaiting' = Remove(awaiting, i))
             => /\ store' = store
                /\ call' = awaiting[i].req
                /\ awaiting[i].updatedOffer = NotFound => ret'.status = 404
                /\ awaiting[i].updatedOffer # NotFound
                     => ret'.status = 200 /\ ret'.body.status = call'.status
       /\ (IsPutStatus' /\ ret'.status = 200)
            => call'.status \in {"accepted", "rejected"}]_vars

\* a barter offer created from a body that carries status "withdrawn"
C16_Witness ==
    /\ IsPostBarter /\ ret.status = 201
    /\ "status" \in DOMAIN call.body
    /\ call.body.status = "withdrawn"
    /\ ret.body.status = "pending"
    /\ barterOffers[Len(barterOffers)].value = ret.body

\* a barter offer accepted, and a status update refused after that
C16_WitnessRefused ==
    /\ IsPutStatus /\ call.status = "withdrawn" /\ call.id = "1"
    /\ ret.status = 400
    /\ Len(barterOffers) = 1
    /\ barterOffers[1].value.status = "accepted"

\* two status updates of one barter offer overlap: the first is answered with
\* the status it set while the store holds the status the second set
C16_WitnessOverlap ==
    /\ IsPutStatus /\ call.status = "accepted" /\ call.id = "1"
    /\ ret.status = 200 /\ ret.body.status = "accepted"
    /\ barterOffers[1].value.status = "rejected"
    /\ Len(awaiting) = 1 /\ awaiting[1].op = StatusRoute

\* a status update for an id no barter offer has, with one offer in the store
C16_WitnessNotFound ==
    /\ IsPutStatus /\ call.status = "rejected" /\ call.id = "2"
    /\ ret.status = 404
    /\ Len(barterOffers) = 1

\* C17: after any sequence of requests every bid refers to a listing of the
\* store. Only POST /api/listings/:listingId/bids adds a bid, when the listing
\* it read exists and its validation passes, and the bid has the listing id of
\* the path; the request is answered 201 with that bid. A request that read no
\* listing is answered 404, a request whose validation fails is answered 400,
\* and no step of either adds a bid or advances the bid id counter.
C17_BidListing ==
    [][/\ \A i \in 1..Len(bids') : MapHas(listings', bids'[i].value.listingId)
       /\ (Len(awaiting') = Len(awaiting) + 1
              /\ awaiting'[Len(awaiting')].op = BidsRoute)
            => LET a == awaiting'[Len(awaiting')]
               IN  /\ store' = store
                   /\ a.listing = NotFound
                        <=> ~MapHas(listings, parseInt(a.req.listingId).n)
       /\ (bids' # bids \/ bidId' # bidId)
            => \E i \in 1..Len(awaiting) :
                  /\ Suspended(i, BidsRoute, "getListing")
                  /\ awaiting[i].listing # NotFound
                  /\ awaiting[i].req.valid
                  /\ bidId' = bidId + 1
                  /\ Len(bids') = Len(bids) + 1
                  /\ MapGet(bids', bidId).listingId = parseInt(awaiting[i].req.listingId).n
                  /\ MapHas(listings, parseInt(awaiting[i].req.listingId).n)
                  /\ awaiting'[i].pc = "createBid"
                  /\ awaiting'[i].req = awaiting[i].req
                  /\ awaiting'[i].bid = MapGet(bids', bidId)
       /\ \A i \in 1..Len(awaiting) :
             (Suspended(i, BidsRoute, "getListing") /\ awaiting' = Remove(awaiting, i))
             => /\ store' = store
                /\ call' = awaiting[i].req
                /\ awaiting[i].listing = NotFound => ret'.status = 404
                /\ awaiting[i].listing # NotFound
                     => ~awaiting[i].req.valid /\ ret'.status = 400
       /\ (IsPostBids' /\ ret'.status = 201)
            => \E i \in 1..Len(awaiting) :
                  /\ Suspended(i, BidsRoute, "createBid")
                  /\ awaiting' = Remove(awaiting, i)
                  /\ call' = awaiting[i].req
                  /\ ret'.body = awaiting[i].bid
                  /\ ret'.body.listingId = parseInt(call'.listingId).n
                  /\ store' = store
       /\ (IsPostBids' /\ ret'.status # 201)
            => /\ store' = store
               /\ \/ awaiting' = awaiting
                  \/ \E i \in 1..Len(awaiting) :
                        /\ Suspended(i, BidsRoute, "getListing")
                        /\ awaiting' = Remove(awaiting, i)]_vars

\* a bid on a listing created by POST /api/listings, from a body that carries
\* another listingId
C17_Witness ==
    /\ IsPostBids /\ ret.status = 201
    /\ call.listingId = "4" /\ "listingId" \in DOMAIN call.body
    /\ call.body.listingId = 9
    /\ ret.body.listingId = 4
    /\ MapHas(listings, 4)
    /\ Len(bids) = 1

\* a request for a listing that does not exist, after a bid was created
C17_WitnessNotFound ==
    /\ IsPostBids /\ ret.status = 404
    /\ call.listingId = "9"
    /\ Len(bids) = 1 /\ bidId = 2

====
